---- MODULE Spec2Model ----
(***************************************************************************)
(* Huawei Solar Monitor (src/app.js): an express server that reads three   *)
(* holding-register groups of an inverter over one shared Modbus TCP       *)
(* client and serves the decoded reading with its cost estimate.           *)
(*                                                                         *)
(* One action is one turn of the Node event loop: an event (the listen     *)
(* callback, a GET request, the settlement of connectTCP or of a register  *)
(* read) together with every continuation that runs before the next event, *)
(* because an awaited promise resumes its async function in a microtask.   *)
(* `timestamp: new Date()` (line 44) is left out: no property reads it.    *)
(***************************************************************************)
EXTENDS Integers, Sequences, FiniteSets, TLC

\* Number of GET /api/solar-data requests that can be outstanding at once.
NumReq == 2
Reqs == 1..NumReq

\* The data arrays the device answers with in the server model: unsigned
\* 16-bit words, two answers for a two-word group and two for a one-word group.
SampleData == { <<0, 50>>, <<50, 0>>, <<0>>, <<50>> }

\* The words the device answers with where the decoding and the cost
\* estimate are explored on their own: the extremes of an unsigned 16-bit
\* word, the values of the documented scenario (50, 120) and small values
\* whose cost falls between two cents.
WideWords == {0, 1, 3, 50, 120, 65535}
WideData == { <<a>> : a \in WideWords } \cup
            { <<a, b>> : a \in WideWords, b \in WideWords }

\* The three readHoldingRegisters calls of fetchSolarData, in program order,
\* with the factor applied to data[0] in the returned object.
Groups ==
  << [name |-> "power",   address |-> 32080, count |-> 2, scale |-> 100],
     [name |-> "energy",  address |-> 32106, count |-> 2, scale |-> 100],
     [name |-> "voltage", address |-> 32066, count |-> 1, scale |-> 10] >>

NumGroups == Len(Groups)

\* ENERGY_COST, in thousandths of a euro per kWh.
ENERGY_COST == [purchase |-> 250, sale |-> 120]

ConnStates == {"Disconnected", "Connecting", "Connected", "Failed"}
DevStates == {"up", "silent", "down"}
ReadErrors == {"DeviceRejected", "LinkLost"}

Null == [null |-> TRUE]
NoResp == [status |-> 0]

VARIABLES
  listening,     \* app.listen's callback has run
  conn,          \* state of modbusClient's port
  connGen,       \* number of connections modbusClient has established
  connectCalls,  \* number of connectTCP calls made so far
  connectResult, \* what connectToInverter's promise settled with, or "pending"
  dev,           \* the inverter: answering, connected but silent, unreachable
  wire,          \* register reads written to the transport, not yet settled
  pc,            \* per request: "idle", "read" (awaiting a read), "done"
  issued,        \* per request: groups readHoldingRegisters was called for
  raw,           \* per request: the data arrays received, in order
  gens,          \* per request: the connection each received array came over
  src,           \* per request: the request whose read each array answered
  err,           \* per request: the error fetchSolarData caught, or "none"
  base,          \* per request: connectCalls when the handler was entered
  resp           \* per request: the response sent, or NoResp

vars == << listening, conn, connGen, connectCalls, connectResult, dev, wire,
           pc, issued, raw, gens, src, err, base, resp >>

sessionVars ==
  << listening, conn, connGen, connectCalls, connectResult, dev >>

WordSeqs(n) == { d \in SampleData \cup WideData : Len(d) = n }

(***************************************************************************)
(* Pure parts of the program.                                              *)
(***************************************************************************)

\* A decoding that scales by dividing before it multiplies.
ReadingLossy(rs) ==
  [ activePower |-> (rs[1][1] \div 10) * 1000,
    dailyEnergy |-> (rs[2][1] \div 10) * 1000,
    voltage     |-> rs[3][1] * 10 ]

\* The object fetchSolarData returns: only data[0] of each array is used.
Reading(rs) ==
  [ activePower |-> rs[1][1] * Groups[1].scale,
    dailyEnergy |-> rs[2][1] * Groups[2].scale,
    voltage     |-> rs[3][1] * Groups[3].scale ]

\* Raw energy words e for which the double (e * 100) / 1000 lies above,
\* respectively below, the real number e / 10 (IEEE-754 binary64, round to
\* nearest); for every other e in 0..129 and for 65535 the quotient is exact.
Div1000Above ==
  { 1, 2, 4, 8, 9, 11, 13, 16, 18, 21, 22, 26, 27, 31, 32, 36, 37, 42, 44, 47,
    49, 52, 54, 57, 59, 62, 64, 67, 69, 72, 74, 77, 79, 83, 84, 88, 89, 93, 94,
    98, 99, 103, 104, 108, 109, 113, 114, 118, 119, 123, 124, 128, 129 }
Div1000Below ==
  { 3, 6, 7, 12, 14, 17, 19, 23, 24, 28, 29, 33, 34, 38, 39, 41, 43, 46, 48, 51,
    53, 56, 58, 61, 63, 66, 68, 71, 73, 76, 78, 81, 82, 86, 87, 91, 92, 96, 97,
    101, 102, 106, 107, 111, 112, 116, 117, 121, 122, 126, 127 }

\* Sign of (the double wh / 1000) - (the real wh / 1000).
Div1000Err(wh) ==
  IF wh % 100 = 0 /\ (wh \div 100) \in Div1000Above THEN 1
  ELSE IF wh % 100 = 0 /\ (wh \div 100) \in Div1000Below THEN -1
  ELSE 0

\* Number.prototype.toFixed(2) of the double whose real neighbour is
\* v / 100000 and whose error has sign e: the integer n of hundredths nearest
\* to the double, the larger one on an exact tie.  Returned as n, which
\* stands for the string with two decimals.
ToFixed2(v, e) ==
  LET q == v \div 1000
      m == v % 1000
  IN  IF m > 500 \/ (m = 500 /\ e >= 0) THEN q + 1 ELSE q

\* calculateCosts.  dailyEnergyKWh is kept as dailyEnergy / 1000 in units of
\* 1/100000 together with the sign of its rounding error; * 0.25 is exact in
\* binary, and kWh * 0.12 is never within rounding error of a half cent
\* (1200 * e is never 500 modulo 1000), so its error sign cannot matter.
\* Wh times thousandths of a euro per kWh is millionths of a euro; the
\* products are taken before the division to stay within 32-bit integers.
calculateCosts(data) ==
  LET kwh == data.dailyEnergy * 100
      e == Div1000Err(data.dailyEnergy)
      savings == (data.dailyEnergy * ENERGY_COST.purchase) \div 10
      revenue == (data.dailyEnergy * ENERGY_COST.sale) \div 10
  IN  [ dailySavings     |-> ToFixed2(savings, e),
        potentialRevenue |-> ToFixed2(revenue, 0),
        energyProduced   |-> ToFixed2(kwh, e) ]

\* A catch block that answers with an all-zero reading instead of null.
fetchCatchZero(e) == [activePower |-> 0, dailyEnergy |-> 0, voltage |-> 0]

\* The catch block of fetchSolarData: log and return null.
fetchCatch(e) == Null

\* A handler whose else branch forgets `.status(500)`.
RespondNoStatus(data) ==
  IF data # Null
    THEN [ status |-> 200,
           body |-> [ activePower |-> data.activePower,
                      dailyEnergy |-> data.dailyEnergy,
                      voltage |-> data.voltage,
                      costs |-> calculateCosts(data) ] ]
    ELSE [ status |-> 200, body |-> [ error |-> "Failed to fetch data" ] ]

\* The body of the route handler after `await fetchSolarData()`.
Respond(data) ==
  IF data # Null
    THEN [ status |-> 200,
           body |-> [ activePower |-> data.activePower,
                      dailyEnergy |-> data.dailyEnergy,
                      voltage |-> data.voltage,
                      costs |-> calculateCosts(data) ] ]
    ELSE [ status |-> 500, body |-> [ error |-> "Failed to fetch data" ] ]

(***************************************************************************)
(* The Modbus client (modbus-serial, not part of the sources): a read is   *)
(* written to the port only while the port is open, otherwise the promise  *)
(* is rejected at once.                                                    *)
(***************************************************************************)
\* A client that writes to the port whatever its state.
PortOpenAlways == TRUE

PortIsOpen == conn = "Connected"

\* fetchSolarData leaves through its catch block with error e.
Settle(r, e) ==
  /\ pc' = [pc EXCEPT ![r] = "done"]
  /\ err' = [err EXCEPT ![r] = e]
  /\ resp' = [resp EXCEPT ![r] = Respond(fetchCatch(e))]

\* `await modbusClient.readHoldingRegisters(...)` for group g in request r,
\* with w the reads left on the transport and prev the groups called before.
readHoldingRegisters(r, g, w, prev) ==
  /\ issued' = [issued EXCEPT ![r] = Append(prev, g)]
  /\ IF PortIsOpen
       THEN /\ wire' = w \cup { [req |-> r, grp |-> g, gen |-> connGen] }
            /\ pc' = [pc EXCEPT ![r] = "read"]
            /\ err' = [err EXCEPT ![r] = "none"]
            /\ resp' = [resp EXCEPT ![r] = NoResp]
       ELSE /\ wire' = w
            /\ Settle(r, "NotConnected")

(***************************************************************************)
(* Actions.                                                                *)
(***************************************************************************)

Init ==
  /\ listening = FALSE
  /\ conn = "Disconnected"
  /\ connGen = 0
  /\ connectCalls = 0
  /\ connectResult = "pending"
  /\ dev \in DevStates
  /\ wire = {}
  /\ pc = [r \in Reqs |-> "idle"]
  /\ issued = [r \in Reqs |-> <<>>]
  /\ raw = [r \in Reqs |-> <<>>]
  /\ gens = [r \in Reqs |-> <<>>]
  /\ src = [r \in Reqs |-> <<>>]
  /\ err = [r \in Reqs |-> "none"]
  /\ base = [r \in Reqs |-> 0]
  /\ resp = [r \in Reqs |-> NoResp]

\* What the promise of connectToInverter settles with when connectTCP
\* resolved (ok) or rejected: the function has no return statement and its
\* catch block only logs, so it resolves with undefined either way.
connectToInverterResult(ok) == "undefined"

\* app.listen's callback: connectToInverter() runs up to its await.
Listen ==
  /\ ~listening
  /\ listening' = TRUE
  /\ conn' = "Connecting"
  /\ connectCalls' = connectCalls + 1
  /\ UNCHANGED << connGen, connectResult, dev, wire,
                  pc, issued, raw, gens, src, err, base, resp >>

\* connectTCP resolves: setID, log.
ConnectOk ==
  /\ conn = "Connecting"
  /\ dev # "down"
  /\ conn' = "Connected"
  /\ connGen' = connGen + 1
  /\ connectResult' = connectToInverterResult(TRUE)
  /\ UNCHANGED << listening, connectCalls, dev, wire,
                  pc, issued, raw, gens, src, err, base, resp >>

\* connectTCP rejects: the catch block logs the error and returns.
ConnectFail ==
  /\ conn = "Connecting"
  /\ dev = "down"
  /\ conn' = "Failed"
  /\ connectResult' = connectToInverterResult(FALSE)
  /\ UNCHANGED << listening, connGen, connectCalls, dev, wire,
                  pc, issued, raw, gens, src, err, base, resp >>

\* `updateData(); setInterval(updateData, 5000)` in the page script: the
\* timer calls updateData, which fetches /api/solar-data, on every tick; no
\* flag records a call that is still pending, so a tick is never skipped.
PollerMayCall(r) == TRUE

\* A fetchSolarData that starts its three reads together (Promise.all).
RequestParallel(r) ==
  /\ listening
  /\ PollerMayCall(r)
  /\ pc[r] = "idle"
  /\ base' = [base EXCEPT ![r] = connectCalls]
  /\ issued' = [issued EXCEPT ![r] = << 1, 2, 3 >>]
  /\ IF PortIsOpen
       THEN /\ wire' = wire \cup { [req |-> r, grp |-> g, gen |-> connGen] :
                                     g \in 1..NumGroups }
            /\ pc' = [pc EXCEPT ![r] = "read"]
            /\ UNCHANGED << err, resp >>
       ELSE /\ wire' = wire
            /\ Settle(r, "NotConnected")
  /\ UNCHANGED << sessionVars, raw, gens, src >>

\* A GET /api/solar-data request arrives in the free slot r (from the page
\* script's poller or any other client): the handler calls fetchSolarData,
\* which calls the first read.
Request(r) ==
  /\ listening
  /\ PollerMayCall(r)
  /\ pc[r] = "idle"
  /\ base' = [base EXCEPT ![r] = connectCalls]
  /\ readHoldingRegisters(r, 1, wire, <<>>)
  /\ UNCHANGED << sessionVars, raw, gens, src >>

\* A client that hands an answer to whichever call is waiting, not to the call
\* that sent the read.
ReadOkAnyCall(r, words) ==
  /\ pc[r] = "read"
  /\ conn = "Connected"
  /\ dev = "up"
  /\ \E m \in wire :
       /\ m.gen = connGen
       /\ words \in WordSeqs(Groups[m.grp].count)
       /\ raw' = [raw EXCEPT ![r] = Append(@, words)]
       /\ gens' = [gens EXCEPT ![r] = Append(@, m.gen)]
       /\ src' = [src EXCEPT ![r] = Append(@, m.req)]
       /\ wire' = wire \ {m}
       /\ IF Len(raw[r]) + 1 < NumGroups
            THEN UNCHANGED << pc, resp >>
            ELSE /\ pc' = [pc EXCEPT ![r] = "done"]
                 /\ resp' = [resp EXCEPT ![r] =
                               Respond(Reading(Append(raw[r], words)))]
  /\ UNCHANGED << sessionVars, base, issued, err >>

\* The read request r awaits is answered with `words`: fetchSolarData goes on
\* to the next read, or returns the reading and the handler responds.
ReadOk(r, words) ==
  /\ pc[r] = "read"
  /\ conn = "Connected"
  /\ dev = "up"
  /\ \E m \in wire :
       /\ m.req = r
       /\ m.gen = connGen
       /\ words \in WordSeqs(Groups[m.grp].count)
       /\ raw' = [raw EXCEPT ![r] = Append(@, words)]
       /\ gens' = [gens EXCEPT ![r] = Append(@, m.gen)]
       /\ src' = [src EXCEPT ![r] = Append(@, m.req)]
       /\ IF m.grp < NumGroups
            THEN readHoldingRegisters(r, m.grp + 1, wire \ {m}, issued[r])
            ELSE /\ wire' = wire \ {m}
                 /\ pc' = [pc EXCEPT ![r] = "done"]
                 /\ resp' = [resp EXCEPT ![r] =
                               Respond(Reading(Append(raw[r], words)))]
                 /\ UNCHANGED << issued, err >>
  /\ UNCHANGED << sessionVars, base >>

\* A fetchSolarData that catches the error of each read on its own and goes on
\* with the next group instead of leaving.
ReadFailContinue(r, kind) ==
  /\ pc[r] = "read"
  /\ \/ kind = "DeviceRejected" /\ conn = "Connected" /\ dev = "up"
     \/ kind = "LinkLost" /\ (conn = "Failed" \/ dev = "down")
  /\ conn' = IF kind = "LinkLost" THEN "Failed" ELSE conn
  /\ err' = [err EXCEPT ![r] = kind]
  /\ \E m \in wire :
       /\ m.req = r
       /\ IF m.grp < NumGroups
            THEN issued' = [issued EXCEPT ![r] = Append(@, m.grp + 1)]
            ELSE issued' = issued
       /\ IF m.grp < NumGroups /\ kind = "DeviceRejected"
            THEN /\ wire' = (wire \ {m}) \cup
                             { [req |-> r, grp |-> m.grp + 1, gen |-> connGen] }
                 /\ UNCHANGED << pc, resp >>
            ELSE /\ wire' = wire \ {m}
                 /\ pc' = [pc EXCEPT ![r] = "done"]
                 /\ resp' = [resp EXCEPT ![r] = Respond(Null)]
  /\ UNCHANGED << listening, connGen, connectCalls, connectResult, dev,
                  raw, gens, src, base >>

\* A fetchSolarData that answers a lost link by reconnecting and reading the
\* failed group again over the new connection (at most three connections).
ReadFailReconnect(r, kind) ==
  /\ pc[r] = "read"
  /\ \/ kind = "DeviceRejected" /\ conn = "Connected" /\ dev = "up"
     \/ kind = "LinkLost" /\ (conn = "Failed" \/ dev = "down")
  /\ \E m \in wire :
       /\ m.req = r
       /\ IF kind = "LinkLost" /\ connGen < 3
            THEN /\ conn' = "Connected"
                 /\ connGen' = connGen + 1
                 /\ connectCalls' = connectCalls + 1
                 /\ wire' = (wire \ {m}) \cup
                             { [req |-> r, grp |-> m.grp, gen |-> connGen + 1] }
                 /\ issued' = [issued EXCEPT ![r] = Append(@, m.grp)]
                 /\ UNCHANGED << pc, err, resp >>
            ELSE /\ conn' = IF kind = "LinkLost" THEN "Failed" ELSE conn
                 /\ wire' = wire \ {m}
                 /\ Settle(r, kind)
                 /\ UNCHANGED << connGen, connectCalls, issued >>
  /\ UNCHANGED << listening, connectResult, dev, raw, gens, src, base >>

\* A fetchSolarData that calls a rejected read a second time before giving up.
ReadFailRetry(r, kind) ==
  /\ pc[r] = "read"
  /\ \/ kind = "DeviceRejected" /\ conn = "Connected" /\ dev = "up"
     \/ kind = "LinkLost" /\ (conn = "Failed" \/ dev = "down")
  /\ conn' = IF kind = "LinkLost" THEN "Failed" ELSE conn
  /\ \E m \in wire :
       /\ m.req = r
       /\ LET first == Cardinality({ i \in 1..Len(issued[r]) :
                                       issued[r][i] = m.grp }) = 1
          IN  /\ issued' = [issued EXCEPT ![r] =
                              IF first THEN Append(@, m.grp) ELSE @]
              /\ IF first /\ kind = "DeviceRejected"
                   THEN UNCHANGED << wire, pc, err, resp >>
                   ELSE wire' = wire \ {m} /\ Settle(r, kind)
  /\ UNCHANGED << listening, connGen, connectCalls, connectResult, dev,
                  raw, gens, src, base >>

\* The read request r awaits is rejected: a Modbus exception from the device,
\* or the transport failing under the request.
ReadFail(r, kind) ==
  /\ pc[r] = "read"
  /\ \/ kind = "DeviceRejected" /\ conn = "Connected" /\ dev = "up"
     \/ kind = "LinkLost" /\ (conn = "Failed" \/ dev = "down")
  /\ \E m \in wire :
       /\ m.req = r
       /\ wire' = wire \ {m}
  /\ conn' = IF kind = "LinkLost" THEN "Failed" ELSE conn
  /\ Settle(r, kind)
  /\ UNCHANGED << listening, connGen, connectCalls, connectResult, dev,
                  issued, raw, gens, src, base >>

\* The socket closes under an open port.
LinkLost ==
  /\ conn = "Connected"
  /\ dev = "down"
  /\ conn' = "Failed"
  /\ UNCHANGED << listening, connGen, connectCalls, connectResult, dev, wire,
                  pc, issued, raw, gens, src, err, base, resp >>

\* The inverter or the network changes state.
DeviceChange(d) ==
  /\ d # dev
  /\ dev' = d
  /\ UNCHANGED << listening, conn, connGen, connectCalls, connectResult, wire,
                  pc, issued, raw, gens, src, err, base, resp >>

\* The client has received the response to request r (the page script's
\* `await fetch` and `response.json()` return); the slot is free again.
Finish(r) ==
  /\ pc[r] = "done"
  /\ pc' = [pc EXCEPT ![r] = "idle"]
  /\ issued' = [issued EXCEPT ![r] = <<>>]
  /\ raw' = [raw EXCEPT ![r] = <<>>]
  /\ gens' = [gens EXCEPT ![r] = <<>>]
  /\ src' = [src EXCEPT ![r] = <<>>]
  /\ err' = [err EXCEPT ![r] = "none"]
  /\ base' = [base EXCEPT ![r] = 0]
  /\ resp' = [resp EXCEPT ![r] = NoResp]
  /\ UNCHANGED << sessionVars, wire >>

Next ==
  \/ Listen
  \/ ConnectOk
  \/ ConnectFail
  \/ \E r \in Reqs : Request(r)
  \/ \E r \in Reqs : \E words \in SampleData : ReadOk(r, words)
  \/ \E r \in Reqs : \E kind \in ReadErrors : ReadFail(r, kind)
  \/ LinkLost
  \/ \E d \in DevStates : DeviceChange(d)
  \/ \E r \in Reqs : Finish(r)

Spec == Init /\ [][Next]_vars

\* What the runtime guarantees: the event loop runs every callback that is
\* ready, the page keeps polling and consumes each response, a device that
\* answers again and again answers the pending read, and a read on a link
\* that is broken again and again is rejected.  Nothing obliges the device to
\* change state or to answer with an exception.
Fairness ==
  /\ WF_vars(Listen)
  /\ WF_vars(ConnectOk)
  /\ WF_vars(ConnectFail)
  /\ WF_vars(LinkLost)
  /\ \A r \in Reqs :
       /\ WF_vars(Request(r))
       /\ WF_vars(Finish(r))
       /\ SF_vars(\E words \in SampleData : ReadOk(r, words))
       /\ SF_vars(ReadFail(r, "LinkLost"))

FairSpec == Init /\ [][Next]_vars /\ Fairness

(***************************************************************************)
(* Decoding and cost estimate on their own: one request at a time against  *)
(* a connected, answering device whose words range over WideWords.         *)
(***************************************************************************)
DecodeInit ==
  /\ listening = TRUE
  /\ conn = "Connected"
  /\ connGen = 1
  /\ connectCalls = 1
  /\ connectResult = connectToInverterResult(TRUE)
  /\ dev = "up"
  /\ wire = {}
  /\ pc = [r \in Reqs |-> "idle"]
  /\ issued = [r \in Reqs |-> <<>>]
  /\ raw = [r \in Reqs |-> <<>>]
  /\ gens = [r \in Reqs |-> <<>>]
  /\ src = [r \in Reqs |-> <<>>]
  /\ err = [r \in Reqs |-> "none"]
  /\ base = [r \in Reqs |-> 0]
  /\ resp = [r \in Reqs |-> NoResp]

DecodeNext ==
  \/ Request(1)
  \/ \E words \in WideData : ReadOk(1, words)
  \/ Finish(1)

DecodeSpec == DecodeInit /\ [][DecodeNext]_vars

(***************************************************************************)
(* Properties.                                                             *)
(***************************************************************************)

Reading3 == {"activePower", "dailyEnergy", "voltage"}

\* The response of request r carries a field of a reading.
HasReading(r) ==
  /\ resp[r].status # 0
  /\ DOMAIN resp[r].body \cap Reading3 # {}

\* Request r has a read sequence in progress: its first read was issued and
\* its cycle has neither finished nor aborted.
InSequence(r) == pc[r] = "read"

\* C1: concurrent sample() calls never interleave register reads: at most one
\* sampling cycle has a read sequence in progress at any time.
C1_ReadsSerialized == Cardinality({ r \in Reqs : InSequence(r) }) <= 1

\* C2: a failed sample is never reported as a reading: when the connection is
\* unavailable or a read of the query failed, the response is the failure
\* (status 500, only an error field); a response with reading fields is sent
\* only when all three reads of that query succeeded.
C2_FailureIsDistinguishable ==
  \A r \in Reqs :
    /\ err[r] # "none" =>
          /\ pc[r] = "done"
          /\ resp[r].status = 500
          /\ DOMAIN resp[r].body = {"error"}
    /\ HasReading(r) =>
          /\ err[r] = "none"
          /\ Len(raw[r]) = NumGroups
          /\ issued[r] = << 1, 2, 3 >>

\* A query whose third read failed after two succeeded has been answered.
C2_Witness ==
  \E r \in Reqs :
    /\ pc[r] = "done"
    /\ err[r] \in ReadErrors
    /\ Len(raw[r]) = 2
    /\ resp[r].status = 500

\* C3: when a read fails with a link loss on the 1st, 2nd or 3rd read of a
\* cycle, no later group is requested, the call returns a failure and no
\* reading is produced.
C3_LinkLossAborts ==
  \A r \in Reqs :
    err[r] = "LinkLost" =>
      /\ pc[r] = "done"
      /\ Len(issued[r]) = Len(raw[r]) + 1
      /\ \A m \in wire : m.req # r
      /\ resp[r].status = 500
      /\ ~HasReading(r)

\* The link was lost on the second read of a cycle.
C3_Witness ==
  \E r \in Reqs : err[r] = "LinkLost" /\ Len(raw[r]) = 1 /\ pc[r] = "done"

\* C4: a sample() invoked while the session is not Connected attempts connect
\* before any read; if the session is still not Connected after it, the call
\* returns a failure at once and puts no read on the transport.
C4_ConnectBeforeRead ==
  [][ \A r \in Reqs :
        (Request(r) /\ conn # "Connected") =>
          /\ connectCalls' = connectCalls + 1
          /\ conn' # "Connected" => (wire' = wire /\ resp'[r].status = 500)
    ]_vars

\* C5: every failure is recoverable by a later call: once the device is
\* reachable for good and rejects no read, readings keep being returned.
C5_Recovers ==
  <>[](dev = "up" /\ \A r \in Reqs : err[r] # "DeviceRejected")
    => []<>(\E r \in Reqs : HasReading(r))

\* C6: a read is written to the transport only while the connection is
\* Connected; a read called in any other state is rejected as not connected
\* with nothing written, and the call fails.
C6_ReadOnlyWhenConnected ==
  [][ /\ wire' \ wire # {} =>
           /\ conn = "Connected"
           /\ \A m \in wire' \ wire : m.gen = connGen
      /\ \A r \in Reqs :
           (Request(r) /\ conn # "Connected") =>
             /\ wire' = wire
             /\ err'[r] = "NotConnected"
             /\ resp'[r].status = 500
    ]_vars

\* A request was answered while connectTCP was still pending.
C6_Witness ==
  \E r \in Reqs :
    pc[r] = "done" /\ err[r] = "NotConnected" /\ conn = "Connecting"

\* C7: the three values of a returned reading were read over one connection.
C7_OneConnectionPerReading ==
  \A r \in Reqs :
    HasReading(r) =>
      /\ Len(gens[r]) = NumGroups
      /\ \A i, j \in 1..Len(gens[r]) : gens[r][i] = gens[r][j]

\* A reading was returned.
C7_Witness ==
  \E r \in Reqs : HasReading(r) /\ gens[r] = << connGen, connGen, connGen >>

\* C8: within one call at most one connect attempt is made and each register
\* group is requested at most once, whatever the outcome of the reads.
C8_NoRetry ==
  \A r \in Reqs :
    /\ \A i, j \in 1..Len(issued[r]) :
         i # j => issued[r][i] # issued[r][j]
    /\ pc[r] # "idle" => connectCalls - base[r] <= 1

\* The second read of a call was rejected and the call has returned.
C8_Witness ==
  \E r \in Reqs :
    pc[r] = "done" /\ err[r] \in ReadErrors /\ issued[r] = << 1, 2 >>

\* C9: every read issued completes, so every request eventually returns, even
\* when the device never answers.
C9_EveryRequestReturns ==
  \A r \in Reqs : (pc[r] = "read") ~> (pc[r] = "done")

\* C10: a two-word group decodes to (word0 * 65536 + word1) * scale.
C10_TwoWordDecode ==
  \A r \in Reqs :
    HasReading(r) =>
      /\ resp[r].body.activePower =
           (raw[r][1][1] * 65536 + raw[r][1][2]) * Groups[1].scale
      /\ resp[r].body.dailyEnergy =
           (raw[r][2][1] * 65536 + raw[r][2][2]) * Groups[2].scale

\* C11: decoding is exact multiplication by the scale factor: for every raw
\* register value (the word data[0] that fetchSolarData decodes),
\* activePower = raw * 100, dailyEnergy = raw * 100 and voltage = raw * 10.
C11_ExactScaling ==
  \A r \in Reqs :
    HasReading(r) =>
      /\ resp[r].body.activePower = raw[r][1][1] * 100
      /\ resp[r].body.dailyEnergy = raw[r][2][1] * 100
      /\ resp[r].body.voltage = raw[r][3][1] * 10

\* Raw power 50 was decoded to 5000 W, raw energy 120 to 12000 Wh and the
\* largest word to 655350 V.
C11_Witness ==
  \E r \in Reqs :
    /\ HasReading(r)
    /\ raw[r][1][1] = 50 /\ resp[r].body.activePower = 5000
    /\ raw[r][2][1] = 120 /\ resp[r].body.dailyEnergy = 12000
    /\ raw[r][3][1] = 65535 /\ resp[r].body.voltage = 655350

\* C12: the cost estimate is energyProducedKWh = dailyEnergy / 1000,
\* dailySavings = energyProducedKWh * purchaseRate and potentialRevenue =
\* energyProducedKWh * saleRate, for every daily energy.  (Returned values
\* are hundredths, rates thousandths: both sides are in 1/100000.)
C12_CostFormulas ==
  \A r \in Reqs :
    HasReading(r) =>
      LET c == resp[r].body.costs
      IN  /\ c.energyProduced * 1000 = resp[r].body.dailyEnergy * 100
          /\ c.dailySavings * 1000 = c.energyProduced * ENERGY_COST.purchase
          /\ c.potentialRevenue * 1000 = c.energyProduced * ENERGY_COST.sale

\* C15: the cost values returned with a reading keep their full value: the
\* returned dailySavings is dailyEnergy / 1000 * purchaseRate and the returned
\* potentialRevenue is dailyEnergy / 1000 * saleRate, not rounded to cents.
C15_NotTruncated ==
  \A r \in Reqs :
    HasReading(r) =>
      LET c == resp[r].body.costs
          wh == resp[r].body.dailyEnergy
      IN  /\ c.dailySavings * 1000 = (wh * ENERGY_COST.purchase) \div 10
          /\ c.potentialRevenue * 1000 = (wh * ENERGY_COST.sale) \div 10

\* C13: a failed query tells which stage failed: the response to a failure of
\* the connection differs from the response to a failed register read.
C13_StageIndicated ==
  \A r1, r2 \in Reqs :
    ( /\ pc[r1] = "done" /\ err[r1] = "NotConnected"
      /\ pc[r2] = "done" /\ err[r2] \in ReadErrors )
      => resp[r1] # resp[r2]

\* C14: a connect that failed on the transport leaves the state Failed and
\* reports a failure to its caller, a result unlike that of a successful one.
C14_ConnectFailureReported ==
  (conn = "Failed" /\ connGen = 0) =>
    connectResult \notin { "pending", connectToInverterResult(TRUE) }

\* C16: the page's periodic polling never starts a call while an earlier one
\* has not returned.
C16_PollWaitsForReturn ==
  [][ \A r \in Reqs :
        Request(r) => \A q \in Reqs \ {r} : pc[q] # "read" ]_vars

\* C17: within a cycle the groups are requested in the order power (32080, 2
\* words), energy (32106, 2), voltage (32066, 1), each only after the previous
\* group of the cycle was answered.
C17_SequentialOrder ==
  /\ [ g \in 1..NumGroups |-> << Groups[g].address, Groups[g].count >> ]
       = << << 32080, 2 >>, << 32106, 2 >>, << 32066, 1 >> >>
  /\ \A r \in Reqs :
       /\ \E n \in 0..NumGroups : issued[r] = SubSeq(<< 1, 2, 3 >>, 1, n)
       /\ Len(issued[r]) <= Len(raw[r]) + 1
       /\ \A i \in 1..Len(raw[r]) : Len(raw[r][i]) = Groups[i].count
       /\ \A m \in wire :
            m.req = r => pc[r] = "read" /\ m.grp = Len(raw[r]) + 1
                                       /\ m.grp = Len(issued[r])

\* The voltage read of a cycle is pending after power and energy were answered.
C17_Witness ==
  \E r \in Reqs :
    /\ pc[r] = "read"
    /\ issued[r] = << 1, 2, 3 >>
    /\ Len(raw[r]) = 2
    /\ [req |-> r, grp |-> 3, gen |-> connGen] \in wire

C19_ExactlyOneResponse ==
  [][ \A r \in Reqs :
        /\ (pc'[r] = "done") <=> (resp'[r].status \in {200, 500})
        /\ resp'[r].status = 200 =>
             /\ err'[r] = "none"
             /\ DOMAIN resp'[r].body = Reading3 \cup {"costs"}
             /\ resp'[r].body.costs = calculateCosts(Reading(raw'[r]))
        /\ resp'[r].status = 500 =>
             /\ err'[r] # "none"
             /\ resp'[r].body = [ error |-> "Failed to fetch data" ]
        /\ resp[r].status # 0 => (resp'[r] = resp[r] \/ pc'[r] = "idle")
    ]_vars

\* One request was answered with a reading and another with the error.
C19_Witness ==
  \E r1, r2 \in Reqs :
    /\ pc[r1] = "done" /\ resp[r1].status = 200 /\ HasReading(r1)
    /\ pc[r2] = "done" /\ resp[r2].status = 500
====
